---------------------------- MODULE Spec2Model ----------------------------
(***************************************************************************)
(* A model of mlol_client.MLOLClient (src/mlol_client/mlol_client.py):     *)
(* the HTML record parsers, get_book_by_id, download_book_by_id,           *)
(* reserve_book_by_id and the paginated (optionally deep) search.          *)
(*                                                                         *)
(* Text is a sequence of tokens; the token "_" is one whitespace           *)
(* character and ";" and "/" are the separators the code splits on.        *)
(* An optional value is a sequence of length 0 (None) or 1 (Some(x)).      *)
(***************************************************************************)
EXTENDS Integers, Sequences, FiniteSets, TLC

None == <<>>
Some(x) == <<x>>
IsNone(o) == o = <<>>
IsSome(o) == o # <<>>
Val(o) == o[1]

(***************************************************************************)
(* Text primitives: str.strip, str.lower, str.split(sep), str.split(),     *)
(* and the substring test `frag in text`.                                  *)
(***************************************************************************)
WS == "_"

RECURSIVE LStrip(_)
LStrip(s) == IF s # <<>> /\ Head(s) = WS THEN LStrip(Tail(s)) ELSE s

RECURSIVE RStrip(_)
RStrip(s) ==
    IF s # <<>> /\ s[Len(s)] = WS THEN RStrip(SubSeq(s, 1, Len(s) - 1)) ELSE s

Strip(s) == RStrip(LStrip(s))

\* str.lower on one token: the upper- and mixed-case spellings of the
\* vocabulary map to their lower-case spelling, everything else is unchanged.
LowerTok(t) ==
    CASE t = "SCARICA" -> "scarica"
      [] t = "Scarica" -> "scarica"
      [] t = "RIPETI" -> "ripeti"
      [] t = "PRENOTATO" -> "prenotato"
      [] t = "OCCUPATO" -> "occupato"
      [] t = "NON" -> "non"
      [] t = "DISPONIBILE" -> "disponibile"
      [] t = "DOWNLOAD" -> "download"
      [] t = "EPUB" -> "epub"
      [] t = "PDF" -> "pdf"
      [] t = "DRM" -> "drm"
      [] t = "Adobe" -> "adobe"
      [] t = "Con" -> "con"
      [] t = "Successo" -> "successo"
      [] t = "Prenotazione" -> "prenotazione"
      [] t = "Attiva" -> "attiva"
      [] OTHER -> t

Lower(s) == [i \in 1..Len(s) |-> LowerTok(s[i])]

\* A token that holds another one as a proper substring (a fragment inside a
\* longer word: "riscaricato" holds "scarica", "drm-free" holds "drm").
TokHas(t, f) ==
    \/ t = f
    \/ t = "riscaricato" /\ f = "scarica"
    \/ t = "drm-free" /\ f = "drm"

\* `frag in text`: frag occurs as a contiguous run of text.
Contains(text, frag) ==
    \E i \in 1..(Len(text) - Len(frag) + 1) :
        \A j \in 1..Len(frag) : TokHas(text[i + j - 1], frag[j])

\* text.split(sep): the pieces between occurrences of sep (empty pieces kept).
RECURSIVE SplitOn(_, _)
SplitOn(s, sep) ==
    IF \E i \in 1..Len(s) : s[i] = sep
    THEN LET i == CHOOSE k \in 1..Len(s) :
                      s[k] = sep /\ \A m \in 1..(k - 1) : s[m] # sep
         IN  <<SubSeq(s, 1, i - 1)>> \o SplitOn(SubSeq(s, i + 1, Len(s)), sep)
    ELSE <<s>>

\* text.split(): the maximal runs of non-whitespace (no empty pieces).
RECURSIVE SplitWS(_)
SplitWS(s) ==
    LET t == LStrip(s)
    IN  IF t = <<>> THEN <<>>
        ELSE IF \E i \in 1..Len(t) : t[i] = WS
        THEN LET i == CHOOSE k \in 1..Len(t) :
                          t[k] = WS /\ \A m \in 1..(k - 1) : t[m] # WS
             IN  <<SubSeq(t, 1, i - 1)>> \o SplitWS(SubSeq(t, i + 1, Len(t)))
        ELSE <<t>>

\* [a.strip() for a in text.split(";")]
SplitAuthors(text) ==
    LET parts == SplitOn(text, ";")
    IN  [i \in 1..Len(parts) |-> Strip(parts[i])]

\* int(text): the value of a text that is one numeric token (surrounding
\* whitespace allowed), None where int() raises ValueError.
NumTok(t) ==
    CASE t = "0" -> Some(0) [] t = "1" -> Some(1) [] t = "2" -> Some(2)
      [] t = "3" -> Some(3) [] t = "4" -> Some(4)
      [] t = "1965" -> Some(1965) [] t = "2001" -> Some(2001)
      [] OTHER -> None

ParseInt(text) ==
    LET s == Strip(text)
    IN  IF Len(s) = 1 THEN NumTok(s[1]) ELSE None

(***************************************************************************)
(* _parse_book_status                                                      *)
(***************************************************************************)
\* the same with the first two tests in the other order
ParseBookStatus_RipetiFirst(text) ==
    LET status == Lower(Strip(text))
    IN  IF Contains(status, <<"ripeti">>) THEN Some("owned")
        ELSE IF Contains(status, <<"scarica">>) THEN Some("available")
        ELSE IF Contains(status, <<"prenotato">>) THEN Some("reserved")
        ELSE IF Contains(status, <<"occupato">>) THEN Some("taken")
        ELSE IF Contains(status, <<"non", WS, "disponibile">>) THEN Some("unavailable")
        ELSE None

ParseBookStatus(text) ==
    LET status == Lower(Strip(text))
    IN  IF Contains(status, <<"scarica">>) THEN Some("available")
        ELSE IF Contains(status, <<"ripeti">>) THEN Some("owned")
        ELSE IF Contains(status, <<"prenotato">>) THEN Some("reserved")
        ELSE IF Contains(status, <<"occupato">>) THEN Some("taken")
        ELSE IF Contains(status, <<"non", WS, "disponibile">>) THEN Some("unavailable")
        ELSE None


(***************************************************************************)
(* Log records: logging.<level>(<message>), with what the message names.   *)
(***************************************************************************)
Log(level, msg, ref) == [level |-> level, msg |-> msg, ref |-> ref]

(***************************************************************************)
(* _parse_book_page.  A detail page is a record of what each selector      *)
(* finds:                                                                  *)
(*   title, authors, publisher, status, language, year : optional element  *)
(*       text (.book-title, .authors_title, .publisher_title > span > a,   *)
(*       .panel-mlol, span[itemprop=inLanguage|datePublished]);            *)
(*   isbns : the texts of all [itemprop=isbn] elements;                    *)
(*   desc  : None when div[itemprop=description] is missing, else the      *)
(*       sequence of its children, each an optional text (None for a       *)
(*       child without a text attribute);                                  *)
(*   fmtLabel : whether a <b> with text matching FORMATO exists;           *)
(*   fmtSpan  : the text of the span found from it, if any.                *)
(* The result is [raised, data, logs]: raised names the exception that     *)
(* leaves the function (data is then not returned); data.keys are the      *)
(* keys assigned in book_data.                                             *)
(***************************************************************************)
EmptyData ==
    [title |-> None, authors |-> None, publisher |-> None, ISBNs |-> None,
     status |-> None, description |-> None, language |-> None, year |-> None,
     formats |-> None, drm |-> None, keys |-> {}]

\* the first child of the description div that has a text attribute
RECURSIVE FirstWithText(_)
FirstWithText(children) ==
    IF children = <<>> THEN None
    ELSE IF IsSome(Head(children)) THEN Head(children)
    ELSE FirstWithText(Tail(children))

\* lines 193-198: filter(..., None) raises TypeError, next() of an exhausted
\* filter raises StopIteration
DescriptionError(page) ==
    IF IsNone(page.desc) THEN Some("TypeError")
    ELSE IF IsNone(FirstWithText(Val(page.desc))) THEN Some("StopIteration")
    ELSE None

\* lines 204-205: int() of a non-numeric text raises ValueError
YearError(page) ==
    IF IsSome(page.year) /\ IsNone(ParseInt(Val(page.year)))
    THEN Some("ValueError") ELSE None

\* lines 207-219: the try block; the drm key is assigned (line 214) before
\* formats_str.split()[0] can raise IndexError (line 216).
ParseFormats(page) ==
    IF ~page.fmtLabel \/ IsNone(page.fmtSpan)
    THEN [drm |-> None, formats |-> None, keys |-> {}, failed |-> TRUE]
    ELSE LET formats_str == Strip(Val(page.fmtSpan))
             toks == SplitWS(formats_str)
             fs == SplitOn(toks[1], "/")
         IN  IF toks = <<>>
             THEN [drm |-> Some(Contains(Lower(formats_str), <<"drm">>)),
                   formats |-> None, keys |-> {"drm"}, failed |-> TRUE]
             ELSE [drm |-> Some(Contains(Lower(formats_str), <<"drm">>)),
                   formats |-> Some([i \in 1..Len(fs) |-> Lower(Strip(fs[i]))]),
                   keys |-> {"drm", "formats"}, failed |-> FALSE]

\* lines 176-221 when no statement raises: the keys assigned, in source order
BookData(page, f) ==
    [title |-> IF IsSome(page.title) THEN Some(Strip(Val(page.title))) ELSE None,
     authors |-> IF IsSome(page.authors)
                 THEN Some(SplitAuthors(Strip(Val(page.authors)))) ELSE None,
     publisher |-> IF IsSome(page.publisher)
                   THEN Some(Strip(Val(page.publisher))) ELSE None,
     ISBNs |-> IF page.isbns # <<>>
               THEN Some([i \in 1..Len(page.isbns) |-> Strip(page.isbns[i])]) ELSE None,
     status |-> IF IsSome(page.status)
                THEN ParseBookStatus(Strip(Val(page.status))) ELSE None,
     description |-> Some(Strip(Val(FirstWithText(Val(page.desc))))),
     language |-> IF IsSome(page.language)
                  THEN Some(Strip(Val(page.language))) ELSE None,
     year |-> IF IsSome(page.year) THEN ParseInt(Val(page.year)) ELSE None,
     formats |-> f.formats,
     drm |-> f.drm,
     keys |-> {k \in {"title", "authors", "publisher", "status", "language", "year"} :
                  IsSome(page[k])}
              \cup (IF page.isbns # <<>> THEN {"ISBNs"} ELSE {})
              \cup {"description"} \cup f.keys]

ParseBookPage(page) ==
    IF IsSome(DescriptionError(page))
    THEN [raised |-> DescriptionError(page), data |-> EmptyData, logs |-> <<>>]
    ELSE IF IsSome(YearError(page))
    THEN [raised |-> YearError(page), data |-> EmptyData, logs |-> <<>>]
    ELSE [raised |-> None, data |-> BookData(page, ParseFormats(page)),
          logs |-> IF ParseFormats(page).failed
                   THEN <<Log("warning", "Failed to parse formats",
                              IF IsSome(page.title) THEN Some(Strip(Val(page.title))) ELSE None)>>
                   ELSE <<>>]

(***************************************************************************)
(* MLOLBook and get_book_by_id.  A detail response is                      *)
(*   [fault |-> TRUE]                      the transport raised, or        *)
(*   [fault |-> FALSE, alert, page]        alert: the final URL holds      *)
(*                                         "alert.aspx" (the notice page). *)
(* The outcome is [raised, ret, logs, parsed]: ret is None or Some(book).  *)
(***************************************************************************)
MLOLBook(id, data) ==
    [id |-> id, title |-> data.title, authors |-> data.authors,
     status |-> data.status, publisher |-> data.publisher, ISBNs |-> data.ISBNs,
     language |-> data.language, description |-> data.description,
     year |-> data.year, formats |-> data.formats, drm |-> data.drm]

GetBookById(book_id, resp) ==
    IF resp.fault
    THEN [raised |-> Some("HTTPError"), ret |-> None, parsed |-> FALSE,
          logs |-> <<Log("debug", "Fetching book", book_id)>>]
    ELSE IF resp.alert
    THEN [raised |-> None, ret |-> None, parsed |-> FALSE,
          logs |-> <<Log("debug", "Fetching book", book_id),
                     Log("warning", "Failed to fetch book", book_id)>>]
    ELSE LET p == ParseBookPage(resp.page)
         IN  IF IsSome(p.raised)
             THEN [raised |-> p.raised, ret |-> None, parsed |-> TRUE,
                   logs |-> <<Log("debug", "Fetching book", book_id)>> \o p.logs]
             ELSE IF IsNone(p.data.title)
             THEN [raised |-> None, ret |-> None, parsed |-> TRUE,
                   logs |-> <<Log("debug", "Fetching book", book_id)>> \o p.logs
                            \o <<Log("warning", "Failed to get book title", book_id)>>]
             ELSE [raised |-> None, ret |-> Some(MLOLBook(book_id, p.data)),
                   parsed |-> TRUE,
                   logs |-> <<Log("debug", "Fetching book", book_id)>> \o p.logs]

(***************************************************************************)
(* _parse_search_page.  A listing page is [items, firstP]:                 *)
(*   items  : the .result-item elements in document order, each            *)
(*       [title, href, authorref]: title is the h4's title attribute       *)
(*       (None when the h4 or the attribute is missing), href the first    *)
(*       anchor's href (None when missing), authorref the first            *)
(*       "p > a.authorref" of the item: None when there is none,           *)
(*       Some(None) when it has no single string, Some(Some(text));        *)
(*   firstP : the first <p> of the whole page (line 143 searches the page, *)
(*       not the item): None, or Some([itemprop, string]).                 *)
(* An href is a token sequence; ID_RE = (?<=id=)\d+$ finds the last token  *)
(* when it is a run of digits that directly follows "id=".                 *)
(***************************************************************************)
IsDigits(t) == t \in {"1", "2", "12", "21", "7", "8"}

EndsWithIdEq(t) == t \in {"id=", "uid="}

IdOfHref(href) ==
    IF Len(href) >= 2 /\ IsDigits(href[Len(href)]) /\ EndsWithIdEq(href[Len(href) - 1])
    THEN Some(href[Len(href)])
    ELSE None

\* lines 129-136: the title and the ID of an item, None when the try raises
ItemKey(item) ==
    IF IsNone(item.title) \/ IsNone(item.href) THEN None
    ELSE LET m == IdOfHref(Val(item.href))
         IN  IF IsNone(m) THEN None
             ELSE Some([id |-> Val(m), title |-> Val(item.title)])

\* lines 138-147: the local variable `authors` after the try/except.  cur is
\* its value before (None: unbound, Some(v): bound to v, v None or a text).
AuthorsAfter(page, item, cur) ==
    IF IsSome(item.authorref)
    THEN IF IsSome(Val(item.authorref))
         THEN Some(Some(Strip(Val(Val(item.authorref)))))
         ELSE Some(None)                    \* None.strip(): AttributeError
    ELSE IF IsNone(page.firstP) THEN Some(None)                \* AttributeError
    ELSE IF IsNone(Val(page.firstP).itemprop) THEN Some(None)  \* KeyError
    ELSE IF Val(Val(page.firstP).itemprop) = "author"
         THEN IF IsSome(Val(page.firstP).string)
              THEN Some(Some(Strip(Val(Val(page.firstP).string))))
              ELSE Some(None)
    ELSE cur                                \* no assignment, no exception

\* lines 149-157
ListingBook(key, authors) ==
    MLOLBook(key.id,
             [EmptyData EXCEPT !.title = Some(key.title),
                               !.authors = IF IsSome(authors) /\ Val(authors) # <<>>
                                           THEN Some(SplitAuthors(Val(authors)))
                                           ELSE None])

RECURSIVE ParseSearchFrom(_, _, _, _, _)
ParseSearchFrom(page, i, cur, books, logs) ==
    IF i > Len(page.items)
    THEN [raised |-> None, books |-> books, logs |-> logs]
    ELSE LET key == ItemKey(page.items[i])
         IN  IF IsNone(key)
             THEN ParseSearchFrom(page, i + 1, cur, books,
                      Append(logs, Log("error", "Could not parse ID or title. Skipping book", i)))
             ELSE LET a == AuthorsAfter(page, page.items[i], cur)
                  IN  IF IsNone(a)
                      THEN [raised |-> Some("UnboundLocalError"), books |-> <<>>, logs |-> logs]
                      ELSE ParseSearchFrom(page, i + 1, a,
                               Append(books, ListingBook(Val(key), Val(a))), logs)

ParseSearchPage(page) == ParseSearchFrom(page, 1, None, <<>>, <<>>)

(***************************************************************************)
(* The client's state.                                                     *)
(*   cookies  : the session's .ASPXAUTH cookie (None, or Some(value))      *)
(*   op, pc   : the operation in progress and its position                 *)
(*   book_id  : its argument                                               *)
(*   reqs     : the HTTP requests the operation issued, in order (a search *)
(*              walk: since it was last resumed)                           *)
(*   book     : what get_book_by_id returned to it                         *)
(*   loan_id  : the loan ID _redownload_owned_book extracted               *)
(*   response : the response the download flow holds                       *)
(*   ret      : how the operation ended (returned value or raised fault)   *)
(*   logs     : what it logged (a search walk: since it was last resumed)  *)
(*   parses   : the number of _parse_book_page invocations its own          *)
(*              get_book_by_id made                                        *)
(***************************************************************************)
VARIABLES cookies, op, pc, book_id, reqs, book, loan_id, response, ret, logs, parses

opVars == <<cookies, op, pc, book_id, reqs, book, loan_id, response, ret, logs, parses>>

(***************************************************************************)
(* A search walk (the generator search_books / get_latest_books return).   *)
(*   gen       : the generator's arguments and position: req_params, pages,*)
(*               deep, first_response (its listing; read only when         *)
(*               pages = 1)                                                *)
(*               and i, the page of the last batch it worked on            *)
(*   cur       : the listing page the walk is working on                   *)
(*   batch     : the batch last yielded to the consumer, nyield their count*)
(*   futures   : the detail fetches executor.map submitted for the page,   *)
(*               in dispatch order: state and, once done, the outcome      *)
(*   collected : how many results list() has taken from the map iterator   *)
(*   comp      : the indices of the fetches in the order they completed    *)
(*   executor  : the worker count of the open ThreadPoolExecutor, 0: none  *)
(***************************************************************************)
VARIABLES gen, cur, batch, nyield, futures, collected, comp, executor

searchVars == <<gen, cur, batch, nyield, futures, collected, comp, executor>>

(***************************************************************************)
(* A parser applied to one page: page_in is the page, parse_out the        *)
(* outcome, None before the parser ran.                                    *)
(***************************************************************************)
VARIABLES page_in, parse_out

parseVars == <<page_in, parse_out>>

\* ENDPOINTS (lines 25-34)
EP_search == "/media/ricerca.aspx"
EP_resources == "/user/risorse.aspx"
EP_get_book == "/media/scheda.aspx"
EP_redownload == "/help/dlrepeat.aspx"
EP_download == "/media/downloadebadok.aspx"
EP_reserve == "/media/prenota2.aspx"

\* session.request(url, params / query, allow_redirects)
\* with the status of the response it got (0: the transport raised)
Req(ep, arg, allow_redirects, status) ==
    [ep |-> ep, arg |-> arg, email |-> "", page |-> 0,
     allow_redirects |-> allow_redirects, status |-> status]

StatusOf(resp) == IF resp.fault THEN 0 ELSE 200

NoRet == [kind |-> "none", val |-> None, exc |-> ""]
Return(v) == [kind |-> "return", val |-> v, exc |-> ""]
Raise(e) == [kind |-> "raise", val |-> None, exc |-> e]

NoResponse == [fault |-> FALSE, status |-> 0, body |-> <<>>, location |-> ""]

(***************************************************************************)
(* What the portal can answer.                                             *)
(***************************************************************************)
BookIds == {"1", "12"}

TitleTexts == {<<WS, "Dune", WS>>}

StatusTexts ==
    {<<WS, "RIPETI", WS, "DOWNLOAD", WS>>, <<"Scarica">>, <<"ripeti", WS, "riscaricato">>,
     <<"prenotato">>, <<"OCCUPATO">>, <<"non", WS, "disponibile">>,
     <<"non", WS, WS, "disponibile">>, <<"consultabile">>}

DescChildren == {<<>>, <<None>>, <<None, Some(<<WS, "A", WS, "desert", WS>>)>>}

YearTexts == {<<WS, "1965", WS>>, <<"n.d.">>}

FormatTexts ==
    {<<"EPUB", "/", "PDF", WS, "con", WS, "DRM", WS, "Adobe">>,
     <<"PDF", WS, "senza", WS, "protezioni">>, <<WS>>}

Opt(S) == {None} \cup {Some(x) : x \in S}

\* the fields with no failure mode of their own are present together or not
PlainFields ==
    {[authors |-> None, publisher |-> None, isbns |-> <<>>, language |-> None],
     [authors |-> Some(<<"Herbert", WS, ";", WS, "Lem", WS>>),
      publisher |-> Some(<<WS, "Ace">>),
      isbns |-> <<<<"978-0">>, <<WS, "978-1">>>>,
      language |-> Some(<<"italiano">>)]}

DetailPages ==
    {[title |-> t, authors |-> pf.authors, publisher |-> pf.publisher,
      isbns |-> pf.isbns, status |-> st, desc |-> d, language |-> pf.language,
      year |-> y, fmtLabel |-> f[1], fmtSpan |-> f[2]] :
        t \in Opt(TitleTexts), pf \in PlainFields, st \in Opt(StatusTexts),
        d \in Opt(DescChildren), y \in Opt(YearTexts),
        f \in {<<FALSE, None>>, <<TRUE, None>>} \cup {<<TRUE, Some(x)>> : x \in FormatTexts}}

NoPage == CHOOSE p \in DetailPages : TRUE

DetailResponses ==
    {[fault |-> TRUE, alert |-> FALSE, page |-> NoPage],
     [fault |-> FALSE, alert |-> TRUE, page |-> NoPage]}
    \cup {[fault |-> FALSE, alert |-> FALSE, page |-> p] : p \in DetailPages}

\* The user's resource (loan) list: the loan entries in document order, each
\* [book, button]: book is the ID in the href of the entry's book link, button
\* the href of its ".download_button.bottom-buffer-10 > a", if it has one.
MaxLoans == 2

LoanBooks == {"1", "12", "2"}

ButtonHrefs ==
    {<<"..", "/help/helpdeskdl.aspx?", "idp=", "7">>,
     <<"..", "/help/helpdeskdl.aspx?", "idp=", "8">>,
     <<"..", "/help/helpdeskdl.aspx?", "idp=", "7", "&r=x">>}

LoanEntries == [book : LoanBooks, button : Opt(ButtonHrefs)]

SeqsUpTo(S, n) == UNION {[1..k -> S] : k \in 0..n}

ResourceResponses ==
    {[fault |-> TRUE, entries |-> <<>>]}
    \cup {[fault |-> FALSE, entries |-> e] : e \in SeqsUpTo(LoanEntries, MaxLoans)}

\* re.compile(f"({book_id})") searched in an href: book_id occurs in it as a
\* substring of its digits.
IdHas(h, b) ==
    \/ h = b
    \/ h = "12" /\ b \in {"1", "2"}
    \/ h = "21" /\ b \in {"1", "2"}

\* .lstrip("..") and (?<=idp=)\d+$ (lines 230-235)
IdpOfHref(href) ==
    LET h == IF href # <<>> /\ Head(href) = ".." THEN Tail(href) ELSE href
    IN  IF Len(h) >= 2 /\ IsDigits(h[Len(h)]) /\ h[Len(h) - 1] = "idp="
        THEN Some(h[Len(h)])
        ELSE None

\* lines 226-238: [loan, exc]: the loan ID, or the exception the try raised
FindLoan(entries, id) ==
    IF \A i \in 1..Len(entries) : ~IdHas(entries[i].book, id)
    THEN [loan |-> None, exc |-> "AttributeError"]
    ELSE LET i == CHOOSE k \in 1..Len(entries) :
                      /\ IdHas(entries[k].book, id)
                      /\ \A m \in 1..(k - 1) : ~IdHas(entries[m].book, id)
         IN  IF IsNone(entries[i].button)
             THEN [loan |-> None, exc |-> "IndexError"]
             ELSE IF IsNone(IdpOfHref(Val(entries[i].button)))
             THEN [loan |-> None, exc |-> "AttributeError"]
             ELSE [loan |-> IdpOfHref(Val(entries[i].button)), exc |-> ""]

\* Responses of the download and redownload endpoints (redirects not followed)
\* and of the explicit follow-up request.
Marker == "<fulfillmentToken"

Bodies == {<<Marker, "ABC">>, <<"<html>">>, <<WS, Marker>>}

DownloadResponses ==
    {[fault |-> TRUE, status |-> 0, body |-> <<>>, location |-> ""]}
    \cup {[fault |-> FALSE, status |-> 200, body |-> b, location |-> ""] : b \in Bodies}
    \cup {[fault |-> FALSE, status |-> st, body |-> b, location |-> "https://acs"] :
              st \in {301, 302}, b \in Bodies}

FollowResponses ==
    {[fault |-> TRUE, status |-> 0, body |-> <<>>, location |-> ""]}
    \cup {[fault |-> FALSE, status |-> 200, body |-> b, location |-> ""] : b \in Bodies}

\* response.text.startswith("<fulfillmentToken")
StartsWithMarker(body) == body # <<>> /\ body[1] = Marker

\* Responses of the reserve endpoint: the text of #lblInfo, if the page has it.
Messages ==
    {<<WS, "Prenotazione", WS, "effettuata", WS, "Con", WS, "Successo">>,
     <<"hai", WS, "una", WS, "Prenotazione", WS, "Attiva">>,
     <<"prenotazione", WS, "attiva", WS, "con", WS, "successo">>,
     <<"errore">>, <<>>}

ReserveResponses ==
    {[fault |-> TRUE, lblInfo |-> None]}
    \cup {[fault |-> FALSE, lblInfo |-> m] : m \in Opt(Messages)}

Emails == {"a@b.it"}

(***************************************************************************)
(* download_book_by_id                                                     *)
(***************************************************************************)
\* the test with its `not` dropped
Authenticated_Inverted(jar) == ~(IsSome(jar) /\ Val(jar) # "")

\* `self.session.cookies.get(".ASPXAUTH")` is truthy (lines 291, 403)
Authenticated(jar) == IsSome(jar) /\ Val(jar) # ""

\* the `elif book.status != "available"` refusal left out
DownloadBranch_NoRefusal(status) ==
    IF status = Some("owned") THEN "redownload" ELSE "download"

\* lines 298-304: which branch a book status takes
DownloadBranch(status) ==
    IF status = Some("owned") THEN "redownload"
    ELSE IF status # Some("available") THEN "refuse"
    ELSE "download"

\* any 3xx status followed
IsRedirect_Any3xx(resp) == resp.status >= 300 /\ resp.status < 400

\* line 319
IsRedirect(resp) == resp.status = 302

\* lines 326-332: the value returned for the final response
DownloadResult(resp) ==
    IF StartsWithMarker(resp.body) THEN Some(resp.body) ELSE None

DownloadResultLogs(id, resp) ==
    IF StartsWithMarker(resp.body)
    THEN <<Log("info", "Book downloaded", id)>>
    ELSE <<Log("error", "Failed to download book", id), Log("debug", "body", id)>>

\* lines 290-295
CallDownload(id) ==
    /\ pc = "idle"
    /\ op' = "download"
    /\ book_id' = id
    /\ IF Authenticated(cookies)
       THEN /\ pc' = "d_book"
            /\ UNCHANGED <<ret, logs>>
       ELSE /\ pc' = "done"
            /\ ret' = Return(None)
            /\ logs' = Append(logs, Log("error", "You need to be authenticated", id))
    /\ UNCHANGED <<cookies, reqs, book, loan_id, response, parses>>
    /\ UNCHANGED <<searchVars, parseVars>>

\* lines 297-303: get_book_by_id and the dispatch on the status
DownloadGetBook ==
    /\ pc = "d_book"
    /\ \E resp \in DetailResponses :
        LET o == GetBookById(book_id, resp)
        IN  /\ reqs' = Append(reqs, Req(EP_get_book, book_id, TRUE, StatusOf(resp)))
            /\ parses' = parses + (IF o.parsed THEN 1 ELSE 0)
            /\ book' = o.ret
            /\ IF IsSome(o.raised)
               THEN /\ pc' = "done"
                    /\ ret' = Raise(Val(o.raised))
                    /\ logs' = logs \o o.logs
               ELSE IF IsNone(o.ret)
               THEN /\ pc' = "done"               \* None.status
                    /\ ret' = Raise("AttributeError")
                    /\ logs' = logs \o o.logs
               ELSE IF DownloadBranch(Val(o.ret).status) = "redownload"
               THEN /\ pc' = "d_resources"
                    /\ ret' = ret
                    /\ logs' = logs \o o.logs
                               \o <<Log("info", "You already own this book", book_id)>>
               ELSE IF DownloadBranch(Val(o.ret).status) = "refuse"
               THEN /\ pc' = "done"
                    /\ ret' = Return(None)
                    /\ logs' = logs \o o.logs
                               \o <<Log("error", "Book is not available for download",
                                        Val(o.ret).status)>>
               ELSE /\ pc' = "d_download"
                    /\ ret' = ret
                    /\ logs' = logs \o o.logs
    /\ UNCHANGED <<cookies, op, book_id, loan_id, response>>
    /\ UNCHANGED <<searchVars, parseVars>>

\* _redownload_owned_book, lines 224-238: the resource list and the loan ID
RedownloadResources ==
    /\ pc = "d_resources"
    /\ \E resp \in ResourceResponses :
        /\ reqs' = Append(reqs, Req(EP_resources, "", TRUE, StatusOf(resp)))
        /\ IF resp.fault
           THEN /\ pc' = "done"
                /\ ret' = Raise("HTTPError")
                /\ UNCHANGED <<loan_id, logs>>
           ELSE LET f == FindLoan(resp.entries, book_id)
                IN  IF IsNone(f.loan)
                    THEN /\ pc' = "done"
                         /\ ret' = Raise(f.exc)          \* line 238: raise
                         /\ logs' = Append(logs, Log("error", "Failed to find owned book", book_id))
                         /\ UNCHANGED loan_id
                    ELSE /\ pc' = "d_redownload"
                         /\ loan_id' = Val(f.loan)
                         /\ UNCHANGED <<ret, logs>>
    /\ UNCHANGED <<cookies, op, book_id, book, response, parses>>
    /\ UNCHANGED <<searchVars, parseVars>>

\* what follows the (re)download response resp: lines 319 and 326-332
AfterDownloadResponse(resp) ==
    IF resp.fault
    THEN /\ pc' = "done"
         /\ ret' = Raise("HTTPError")
         /\ UNCHANGED <<response, logs>>
    ELSE IF IsRedirect(resp)
    THEN /\ pc' = "d_follow"
         /\ response' = resp
         /\ UNCHANGED <<ret, logs>>
    ELSE /\ pc' = "done"
         /\ response' = resp
         /\ ret' = Return(DownloadResult(resp))
         /\ logs' = logs \o DownloadResultLogs(book_id, resp)

\* _redownload_owned_book, lines 240-253
RedownloadRequest ==
    /\ pc = "d_redownload"
    /\ \E resp \in DownloadResponses :
        /\ reqs' = Append(reqs, Req(EP_redownload, loan_id, FALSE, resp.status))
        /\ AfterDownloadResponse(resp)
    /\ UNCHANGED <<cookies, op, book_id, book, loan_id, parses>>
    /\ UNCHANGED <<searchVars, parseVars>>

\* lines 305-317
DownloadRequest ==
    /\ pc = "d_download"
    /\ \E resp \in DownloadResponses :
        /\ reqs' = Append(reqs, Req(EP_download, book_id, FALSE, resp.status))
        /\ AfterDownloadResponse(resp)
    /\ UNCHANGED <<cookies, op, book_id, book, loan_id, parses>>
    /\ UNCHANGED <<searchVars, parseVars>>

\* lines 319-332: the explicit follow-up to Location
DownloadFollow ==
    /\ pc = "d_follow"
    /\ \E resp \in FollowResponses :
        /\ reqs' = Append(reqs, Req(response.location, "", TRUE, resp.status))
        /\ IF resp.fault
           THEN /\ ret' = Raise("HTTPError")
                /\ UNCHANGED <<response, logs>>
           ELSE /\ response' = resp
                /\ ret' = Return(DownloadResult(resp))
                /\ logs' = logs \o DownloadResultLogs(book_id, resp)
    /\ pc' = "done"
    /\ UNCHANGED <<cookies, op, book_id, book, loan_id, parses>>
    /\ UNCHANGED <<searchVars, parseVars>>

(***************************************************************************)
(* reserve_book_by_id                                                      *)
(***************************************************************************)
\* the already-reserved phrase treated as a failure
ReserveOutcome_ActiveFails(lblInfo) ==
    IF IsSome(lblInfo)
    THEN IF Contains(Lower(Strip(Val(lblInfo))), <<"con", WS, "successo">>)
         THEN Some(TRUE) ELSE Some(FALSE)
    ELSE None

\* lines 430-444: the returned value for the reserve response's #lblInfo
ReserveOutcome(lblInfo) ==
    IF IsSome(lblInfo)
    THEN LET message == Lower(Strip(Val(lblInfo)))
         IN  IF Contains(message, <<"con", WS, "successo">>) THEN Some(TRUE)
             ELSE IF Contains(message, <<"prenotazione", WS, "attiva">>) THEN Some(TRUE)
             ELSE Some(FALSE)
    ELSE None

ReserveLogs(id, lblInfo) ==
    IF IsSome(lblInfo)
    THEN LET message == Lower(Strip(Val(lblInfo)))
         IN  IF Contains(message, <<"con", WS, "successo">>) THEN <<>>
             ELSE IF Contains(message, <<"prenotazione", WS, "attiva">>)
             THEN <<Log("warning", "You already have an active reservation", id)>>
             ELSE <<Log("error", "Failed to reserve book", id)>>
    ELSE <<Log("error", "Failed to reserve book (unknown outcome)", id)>>

\* lines 402-407
CallReserve(id) ==
    /\ pc = "idle"
    /\ op' = "reserve"
    /\ book_id' = id
    /\ IF Authenticated(cookies)
       THEN /\ pc' = "r_book"
            /\ UNCHANGED <<ret, logs>>
       ELSE /\ pc' = "done"
            /\ ret' = Return(None)
            /\ logs' = Append(logs, Log("error", "You need to be authenticated", id))
    /\ UNCHANGED <<cookies, reqs, book, loan_id, response, parses>>
    /\ UNCHANGED <<searchVars, parseVars>>

\* a status other than taken ends the call
ReserveGate_OnlyTaken(status) == IF status = Some("taken") THEN "proceed" ELSE "stop"

\* lines 409-413: a status other than taken is only logged
ReserveGate(status) == "proceed"

ReserveGetBook ==
    /\ pc = "r_book"
    /\ \E resp \in DetailResponses :
        LET o == GetBookById(book_id, resp)
        IN  /\ reqs' = Append(reqs, Req(EP_get_book, book_id, TRUE, StatusOf(resp)))
            /\ parses' = parses + (IF o.parsed THEN 1 ELSE 0)
            /\ book' = o.ret
            /\ IF IsSome(o.raised)
               THEN /\ pc' = "done"
                    /\ ret' = Raise(Val(o.raised))
                    /\ logs' = logs \o o.logs
               ELSE IF IsNone(o.ret)
               THEN /\ pc' = "done"               \* None.status
                    /\ ret' = Raise("AttributeError")
                    /\ logs' = logs \o o.logs
               ELSE /\ IF ReserveGate(Val(o.ret).status) = "proceed"
                       THEN pc' = "r_reserve" /\ ret' = ret
                       ELSE pc' = "done" /\ ret' = Return(None)
                    /\ logs' = logs \o o.logs
                               \o (IF Val(o.ret).status # Some("taken")
                                   THEN <<Log("error", "You can only reserve taken books",
                                              Val(o.ret).status)>>
                                   ELSE <<>>)
    /\ UNCHANGED <<cookies, op, book_id, loan_id, response>>
    /\ UNCHANGED <<searchVars, parseVars>>

\* lines 415-444
ReserveRequest ==
    /\ pc = "r_reserve"
    /\ \E email \in Emails, resp \in ReserveResponses :
        /\ reqs' = Append(reqs, [Req(EP_reserve, book_id, TRUE, StatusOf(resp))
                                     EXCEPT !.email = email])
        /\ response' = [NoResponse EXCEPT !.fault = resp.fault, !.body = resp.lblInfo,
                                          !.status = StatusOf(resp)]
        /\ IF resp.fault
           THEN /\ ret' = Raise("HTTPError")
                /\ UNCHANGED logs
           ELSE /\ ret' = Return(ReserveOutcome(resp.lblInfo))
                /\ logs' = logs \o ReserveLogs(book_id, resp.lblInfo)
    /\ pc' = "done"
    /\ UNCHANGED <<cookies, op, book_id, book, loan_id, parses>>
    /\ UNCHANGED <<searchVars, parseVars>>

(***************************************************************************)
(* get_book_by_id called by the user (lines 255-285)                       *)
(***************************************************************************)
CallGetBook(id) ==
    /\ pc = "idle"
    /\ op' = "get_book"
    /\ book_id' = id
    /\ pc' = "g_fetch"
    /\ UNCHANGED <<cookies, reqs, book, loan_id, response, ret, logs, parses>>
    /\ UNCHANGED <<searchVars, parseVars>>

GetBookFetch ==
    /\ pc = "g_fetch"
    /\ \E resp \in DetailResponses :
        LET o == GetBookById(book_id, resp)
        IN  /\ reqs' = Append(reqs, Req(EP_get_book, book_id, TRUE, StatusOf(resp)))
            /\ parses' = parses + (IF o.parsed THEN 1 ELSE 0)
            /\ response' = [NoResponse EXCEPT !.fault = resp.fault,
                                              !.status = StatusOf(resp),
                                              !.location = IF resp.alert THEN "alert.aspx" ELSE "",
                                              !.body = IF resp.fault \/ resp.alert
                                                       THEN <<>> ELSE <<resp.page>>]
            /\ book' = o.ret
            /\ ret' = IF IsSome(o.raised) THEN Raise(Val(o.raised)) ELSE Return(o.ret)
            /\ logs' = logs \o o.logs
    /\ pc' = "done"
    /\ UNCHANGED <<cookies, op, book_id, loan_id>>
    /\ UNCHANGED <<searchVars, parseVars>>

\* the call is over; the client is ready for the next one
Finish ==
    /\ pc = "done"
    /\ pc' = "idle"
    /\ op' = "none"
    /\ book_id' = ""
    /\ reqs' = <<>>
    /\ book' = None
    /\ loan_id' = ""
    /\ response' = NoResponse
    /\ ret' = NoRet
    /\ logs' = <<>>
    /\ parses' = 0
    /\ UNCHANGED cookies
    /\ UNCHANGED <<searchVars, parseVars>>

\* the cookie jar a constructed client can hold (lines 78-92): none without
\* credentials, whatever the login produced with them
CookieJars == {None, Some(""), Some("0A1B2C")}

NoGen == [params |-> "", pages |-> 0, deep |-> FALSE, first |-> None, i |-> 0]

\* the state of a client on which no operation is in progress
Idle ==
    /\ pc = "idle"
    /\ op = "none"
    /\ book_id = ""
    /\ reqs = <<>>
    /\ book = None
    /\ loan_id = ""
    /\ response = NoResponse
    /\ ret = NoRet
    /\ logs = <<>>
    /\ parses = 0
    /\ gen = NoGen
    /\ cur = None
    /\ batch = None
    /\ nyield = 0
    /\ futures = <<>>
    /\ collected = 0
    /\ comp = <<>>
    /\ executor = 0
    /\ page_in = None
    /\ parse_out = None

Init ==
    /\ cookies \in CookieJars
    /\ Idle

Next ==
    \/ \E id \in BookIds : CallDownload(id)
    \/ DownloadGetBook
    \/ RedownloadResources
    \/ RedownloadRequest
    \/ DownloadRequest
    \/ DownloadFollow
    \/ \E id \in BookIds : CallReserve(id)
    \/ ReserveGetBook
    \/ ReserveRequest
    \/ \E id \in BookIds : CallGetBook(id)
    \/ GetBookFetch
    \/ Finish

vars == <<opVars, searchVars, parseVars>>

Spec == Init /\ [][Next]_vars

(***************************************************************************)
(* What the properties speak of                                            *)
(***************************************************************************)
Count(ep) == Cardinality({i \in DOMAIN reqs : reqs[i].ep = ep})

Eps == [i \in DOMAIN reqs |-> reqs[i].ep]

\* the faults the HTTP session raises
TransportFaults == {"HTTPError"}

(***************************************************************************)
(* _parse_search_page applied to one listing page                          *)
(***************************************************************************)
MaxItems == 3

ListingItems ==
    {[title |-> Some(<<"Dune">>), href |-> Some(<<"scheda.aspx?", "id=", "1">>),
      authorref |-> Some(Some(<<WS, "Herbert", ";", "Lem", WS>>))],
     [title |-> Some(<<"Solaris">>), href |-> Some(<<"scheda.aspx?", "id=", "12">>),
      authorref |-> None],
     [title |-> Some(<<"Ubik">>), href |-> Some(<<"scheda.aspx?", "uid=", "2">>),
      authorref |-> Some(None)],
     [title |-> None, href |-> Some(<<"scheda.aspx?", "id=", "21">>),
      authorref |-> None],
     [title |-> Some(<<"Kallocain">>), href |-> None, authorref |-> None],
     [title |-> Some(<<"Neuromancer">>),
      href |-> Some(<<"scheda.aspx?", "id=", "2", "&from=search">>),
      authorref |-> None]}

FirstPs ==
    {None,
     Some([itemprop |-> None, string |-> Some(<<"novità">>)]),
     Some([itemprop |-> Some("author"), string |-> Some(<<"Dick", WS>>)]),
     Some([itemprop |-> Some("author"), string |-> None]),
     Some([itemprop |-> Some("name"), string |-> Some(<<"Fantascienza">>)])}

\* an item with an author link sits in a <p>, so the page has a first <p>
ListingPagesOver(items, firstPs, n) ==
    {pg \in [items : SeqsUpTo(items, n), firstP : firstPs] :
        (\E i \in DOMAIN pg.items : IsSome(pg.items[i].authorref)) => IsSome(pg.firstP)}

ListingPages == ListingPagesOver(ListingItems, FirstPs, MaxItems)

ParseListing ==
    /\ pc = "idle"
    /\ IsSome(page_in)
    /\ parse_out = None
    /\ parse_out' = Some(ParseSearchPage(Val(page_in)))
    /\ UNCHANGED <<opVars, searchVars, page_in>>

InitListing ==
    /\ cookies = None
    /\ pc = "idle" /\ op = "none" /\ book_id = "" /\ reqs = <<>> /\ book = None
    /\ loan_id = "" /\ response = NoResponse /\ ret = NoRet /\ logs = <<>>
    /\ parses = 0
    /\ gen = NoGen /\ cur = None /\ batch = None /\ nyield = 0 /\ futures = <<>>
    /\ collected = 0 /\ comp = <<>> /\ executor = 0
    /\ page_in \in {Some(pg) : pg \in ListingPages}
    /\ parse_out = None

NextListing == ParseListing

SpecListing == InitListing /\ [][NextListing]_vars

\* the positions of the items whose ID and title can be extracted
ValidPositions(items) == {i \in DOMAIN items : IsSome(ItemKey(items[i]))}

\* the elements of the set of naturals S in increasing order
RECURSIVE Ascending(_)
Ascending(S) ==
    IF S = {} THEN <<>>
    ELSE LET m == CHOOSE x \in S : \A y \in S : x <= y
         IN  <<m>> \o Ascending(S \ {m})

\* C10 as stated: on a listing page with N valid and K malformed items the
\* parser returns exactly the N records of the valid items, in document order,
\* and logs exactly K skip messages, each naming the 1-based position of a
\* skipped item; the page is never aborted.
C10_ListingParser ==
    IsSome(parse_out) =>
        LET items == Val(page_in).items
            out == Val(parse_out)
            valid == Ascending(ValidPositions(items))
            skipped == Ascending(DOMAIN items \ ValidPositions(items))
        IN  /\ IsNone(out.raised)
            /\ Len(out.books) = Len(valid)
            /\ \A k \in DOMAIN valid :
                   /\ out.books[k].id = Val(ItemKey(items[valid[k]])).id
                   /\ out.books[k].title = Some(Val(ItemKey(items[valid[k]])).title)
            /\ Len(out.logs) = Len(skipped)
            /\ \A k \in DOMAIN skipped : out.logs[k].ref = skipped[k]

\* the item's author link, or else the page's author paragraph, gives a text
YieldsAuthors(page, item) ==
    IF IsSome(item.authorref) THEN IsSome(Val(item.authorref))
    ELSE /\ IsSome(page.firstP)
         /\ Val(page.firstP).itemprop = Some("author")
         /\ IsSome(Val(page.firstP).string)

\* C18 as stated: the listing parser does not raise, and the record of every
\* valid item for which neither the author link nor the author paragraph
\* gives authors has no authors (in particular not those of another item).
C18_AuthorsAbsent ==
    IsSome(parse_out) =>
        LET page == Val(page_in)
            out == Val(parse_out)
            valid == Ascending(ValidPositions(page.items))
        IN  /\ IsNone(out.raised)
            /\ \A k \in DOMAIN valid :
                   ~YieldsAuthors(page, page.items[valid[k]]) =>
                       /\ k \in DOMAIN out.books
                       /\ IsNone(out.books[k].authors)

\* C18, the leak alone: where the parser returns, no record of an item without
\* an author source carries authors.
C18_NoLeak ==
    (IsSome(parse_out) /\ IsNone(Val(parse_out).raised)) =>
        LET page == Val(page_in)
            out == Val(parse_out)
            valid == Ascending(ValidPositions(page.items))
        IN  \A k \in DOMAIN valid :
                ~YieldsAuthors(page, page.items[valid[k]]) => IsNone(out.books[k].authors)

(***************************************************************************)
(* _parse_book_page applied to one detail page                             *)
(***************************************************************************)
\* no operation in progress, no walk in progress
AtRest ==
    /\ op = "none" /\ book_id = "" /\ reqs = <<>> /\ book = None
    /\ loan_id = "" /\ response = NoResponse /\ ret = NoRet /\ logs = <<>>
    /\ parses = 0
    /\ gen = NoGen /\ cur = None /\ batch = None /\ nyield = 0 /\ futures = <<>>
    /\ collected = 0 /\ comp = <<>> /\ executor = 0

ParseDetail ==
    /\ pc = "idle"
    /\ IsSome(page_in)
    /\ parse_out = None
    /\ parse_out' = Some(ParseBookPage(Val(page_in)))
    /\ UNCHANGED <<opVars, searchVars, page_in>>

InitDetail ==
    /\ cookies = None
    /\ AtRest
    /\ pc = "idle"
    /\ page_in \in {Some(pg) : pg \in DetailPages}
    /\ parse_out = None

NextDetail == ParseDetail

SpecDetail == InitDetail /\ [][NextDetail]_vars

\* the description block has a child element that carries text
HasDescription(page) == IsSome(page.desc) /\ IsSome(FirstWithText(Val(page.desc)))

\* the combined format/DRM string is found and holds a token
HasFormats(page) ==
    page.fmtLabel /\ IsSome(page.fmtSpan) /\ SplitWS(Val(page.fmtSpan)) # <<>>

\* C11 as stated: the detail parser never raises, and each field is in its
\* output exactly when its markup is on the page (a year that is not a number
\* counts as missing), whatever the markup of the other fields is.
C11_FieldsIndependent ==
    IsSome(parse_out) =>
        LET page == Val(page_in)
            out == Val(parse_out)
        IN  /\ IsNone(out.raised)
            /\ \A k \in {"title", "authors", "publisher", "status", "language"} :
                   k \in out.data.keys <=> IsSome(page[k])
            /\ "ISBNs" \in out.data.keys <=> page.isbns # <<>>
            /\ "description" \in out.data.keys <=> HasDescription(page)
            /\ IsSome(out.data.year) <=>
                   (IsSome(page.year) /\ IsSome(ParseInt(Val(page.year))))
            /\ "formats" \in out.data.keys <=> HasFormats(page)

\* frag occurs somewhere in the text as given, in any case
Occurs(text, frag) ==
    \E i \in 1..Len(text) :
        /\ i + Len(frag) - 1 <= Len(text)
        /\ \A j \in 1..Len(frag) : TokHas(LowerTok(text[i + j - 1]), frag[j])

\* C19 as stated: when the detail parser returns, formats and drm are both
\* set or both absent: a format string with a token sets formats to its first
\* whitespace-delimited token split on "/" and lower-cased and drm to whether
\* the lower-cased string holds "drm"; a missing string or one without a
\* token logs one warning naming the title and leaves both absent.
C19_FormatsWithDrm ==
    (IsSome(parse_out) /\ IsNone(Val(parse_out).raised)) =>
        LET page == Val(page_in)
            out == Val(parse_out)
            first == SplitOn(SplitWS(Val(page.fmtSpan))[1], "/")
        IN  /\ IsSome(out.data.formats) <=> IsSome(out.data.drm)
            /\ "formats" \in out.data.keys <=> "drm" \in out.data.keys
            /\ IF HasFormats(page)
               THEN /\ out.data.formats = Some([i \in DOMAIN first |-> Lower(first[i])])
                    /\ out.data.drm = Some(Occurs(Val(page.fmtSpan), <<"drm">>))
                    /\ out.logs = <<>>
               ELSE /\ IsNone(out.data.formats) /\ IsNone(out.data.drm)
                    /\ Len(out.logs) = 1
                    /\ out.logs[1].level = "warning"
                    /\ out.logs[1].ref = out.data.title

(***************************************************************************)
(* _parse_book_status applied to one status text                           *)
(***************************************************************************)
MaxStatusLen == 3

StatusTokens ==
    {WS, "Scarica", "riscaricato", "RIPETI", "prenotato", "OCCUPATO", "non", "NON",
     "disponibile", "libro"}

StatusInputs == SeqsUpTo(StatusTokens, MaxStatusLen)

ParseStatus ==
    /\ pc = "idle"
    /\ IsSome(page_in)
    /\ parse_out = None
    /\ parse_out' = Some(ParseBookStatus(Val(page_in)))
    /\ UNCHANGED <<opVars, searchVars, page_in>>

InitStatus ==
    /\ cookies = None
    /\ AtRest
    /\ pc = "idle"
    /\ page_in \in {Some(t) : t \in StatusInputs}
    /\ parse_out = None

NextStatus == ParseStatus

SpecStatus == InitStatus /\ [][NextStatus]_vars

\* the fragments of the claim, in its order, and what each maps to
Fragments ==
    <<[frag |-> <<"scarica">>, status |-> "available"],
      [frag |-> <<"ripeti">>, status |-> "owned"],
      [frag |-> <<"prenotato">>, status |-> "reserved"],
      [frag |-> <<"occupato">>, status |-> "taken"],
      [frag |-> <<"non", WS, "disponibile">>, status |-> "unavailable"]>>

Hits(text) == {n \in DOMAIN Fragments : Occurs(text, Fragments[n].frag)}

\* C12: every status text is mapped, without a fault, to the status of the
\* first fragment of the list (scarica, ripeti, prenotato, occupato,
\* non disponibile) that occurs in it in any case and at any position, and to
\* unknown when none occurs.
C12_StatusMapping ==
    IsSome(parse_out) =>
        LET hits == Hits(Val(page_in))
        IN  Val(parse_out) =
                IF hits = {} THEN None
                ELSE Some(Fragments[CHOOSE n \in hits : \A m \in hits : n <= m].status)

\* a text in which "ripeti" comes before "scarica" was mapped to available
C12_Witness ==
    /\ IsSome(parse_out)
    /\ Len(Val(page_in)) = 3
    /\ Val(page_in)[1] = "RIPETI"
    /\ Val(page_in)[3] = "riscaricato"
    /\ Val(parse_out) = Some("available")

(***************************************************************************)
(* MLOLClient(domain, username, password): __init__ and _get_auth_cookies. *)
(* The login page is the sequence of its forms in document order, each     *)
(* [name, fields]: fields are the names of its input fields.               *)
(***************************************************************************)
EP_login == "/user/logform.aspx"

\* the action URL of the form submitted
EP_form_action == "form action"

MaxForms == 3

Forms ==
    {[name |-> "search", fields |-> {"q"}],
     [name |-> "login", fields |-> {"lusername", "lpassword", "lente"}],
     [name |-> "login-footer", fields |-> {"lusername", "lpassword"}],
     [name |-> "newsletter", fields |-> {"email", "username"}]}

LoginPages == SeqsUpTo(Forms, MaxForms)

\* an argument of the constructor: missing (None or empty) or given
Credentials == {"", "given"}

\* [f for f in browser.get_forms() if "lusername" in f.fields] (line 119)
RECURSIVE LoginForms(_)
LoginForms(forms) ==
    IF forms = <<>> THEN <<>>
    ELSE IF "lusername" \in Head(forms).fields
    THEN <<Head(forms)>> \o LoginForms(Tail(forms))
    ELSE LoginForms(Tail(forms))

\* lines 78-92: without full credentials no login is attempted
Construct(domain, username, password) ==
    /\ pc = "new"
    /\ op' = "construct"
    /\ IF username = "" \/ password = "" \/ domain = ""
       THEN /\ pc' = "done"
            /\ logs' = <<Log("warning", "You did not provide authentication credentials", None)>>
            /\ ret' = Return(None)
       ELSE /\ pc' = "login"
            /\ UNCHANGED <<logs, ret>>
    /\ UNCHANGED <<cookies, book_id, reqs, book, loan_id, response, parses>>
    /\ UNCHANGED <<searchVars, parseVars>>

\* line 118: browser.open of the login page
LoginOpen ==
    /\ pc = "login"
    /\ \E fault \in BOOLEAN, forms \in LoginPages :
        /\ fault => forms = <<>>
        /\ reqs' = Append(reqs, Req(EP_login, "", TRUE, IF fault THEN 0 ELSE 200))
        /\ IF fault
           THEN pc' = "done" /\ ret' = Raise("ConnectionError") /\ UNCHANGED page_in
           ELSE pc' = "form" /\ ret' = ret /\ page_in' = Some(forms)
    /\ UNCHANGED <<cookies, op, book_id, book, loan_id, response, logs, parses>>
    /\ UNCHANGED <<searchVars, parse_out>>

\* lines 119-123: the first form with a "lusername" field is filled in and
\* submitted; [...][0] of an empty list raises IndexError
LoginSubmit ==
    /\ pc = "form"
    /\ pc' = "done"
    /\ IF LoginForms(Val(page_in)) = <<>>
       THEN /\ ret' = Raise("IndexError")
            /\ UNCHANGED <<reqs, cookies, parse_out>>
       ELSE /\ parse_out' = Some(Head(LoginForms(Val(page_in))))
            /\ \E fault \in BOOLEAN, jar \in CookieJars :
                /\ fault => jar = None
                /\ reqs' = Append(reqs, Req(EP_form_action, Head(LoginForms(Val(page_in))).name,
                                            TRUE, IF fault THEN 0 ELSE 200))
                /\ IF fault
                   THEN ret' = Raise("ConnectionError") /\ UNCHANGED cookies
                   ELSE ret' = Return(None) /\ cookies' = jar
    /\ UNCHANGED <<op, book_id, book, loan_id, response, logs, parses>>
    /\ UNCHANGED <<searchVars, page_in>>

InitLogin ==
    /\ cookies = None
    /\ AtRest
    /\ pc = "new"
    /\ page_in = None
    /\ parse_out = None

NextLogin ==
    \/ \E d \in Credentials, u \in Credentials, pw \in Credentials : Construct(d, u, pw)
    \/ LoginOpen
    \/ LoginSubmit

SpecLogin == InitLogin /\ [][NextLogin]_vars

\* C13 as stated: when the login page was received and none of its forms has
\* a username field, construction fails with AuthenticationError and nothing
\* is submitted; otherwise exactly one form is submitted after the one GET of
\* the login page, and it is a form that has the username field, wherever it
\* stands on the page.
C13_LoginForm ==
    (op = "construct" /\ pc = "done" /\ IsSome(page_in)) =>
        IF \A i \in DOMAIN Val(page_in) : "lusername" \notin Val(page_in)[i].fields
        THEN ret = Raise("AuthenticationError") /\ Eps = <<EP_login>>
        ELSE /\ Eps = <<EP_login, EP_form_action>>
             /\ \E i \in DOMAIN Val(page_in) :
                    /\ "lusername" \in Val(page_in)[i].fields
                    /\ reqs[2].arg = Val(page_in)[i].name

(***************************************************************************)
(* search_books, get_latest_books and the generator                        *)
(* _search_books_paginated they return.                                    *)
(***************************************************************************)
MaxPages == 2

MaxBatch == 2

\* class attribute max_threads (line 75)
max_threads == 5

PageTok == <<"0", "1", "2", "3", "4">>

\* #pager: None when the page has none, Some(None) when it has no data-pages
\* attribute, else Some(Some(text of the attribute))
Pagers ==
    {None, Some(None), Some(Some(<<"molte">>))}
    \cup {Some(Some(<<PageTok[n + 1]>>)) : n \in 0..MaxPages}

\* the result items of the pages searched: one with an author link, one without
SearchItems ==
    {it \in ListingItems : IsSome(ItemKey(it)) /\ it.authorref # Some(None)}

SearchFirstPs ==
    {Some([itemprop |-> Some("author"), string |-> Some(<<"Dick", WS>>)]),
     Some([itemprop |-> Some("name"), string |-> Some(<<"Fantascienza">>)])}

SearchListings == ListingPagesOver(SearchItems, SearchFirstPs, MaxBatch)

NoListing == [items |-> <<>>, firstP |-> None]

\* the answer to the initial search request, and to the request of one page
SearchResponses ==
    {[fault |-> TRUE, pager |-> None, listing |-> NoListing]}
    \cup {[fault |-> FALSE, pager |-> pg, listing |-> l] :
              pg \in Pagers, l \in SearchListings}

PageResponses ==
    {[fault |-> TRUE, pager |-> None, listing |-> NoListing]}
    \cup {[fault |-> FALSE, pager |-> None, listing |-> l] : l \in SearchListings}

\* the answers to a detail request of the deep search: a transport fault, the
\* notice page, a full page
DeepPage(title, desc) ==
    [title |-> title, authors |-> None, publisher |-> None, isbns |-> <<>>,
     status |-> Some(<<"Scarica">>), desc |-> desc, language |-> None,
     year |-> None, fmtLabel |-> FALSE, fmtSpan |-> None]

DeepResponses ==
    {[fault |-> TRUE, alert |-> FALSE, page |-> NoPage],
     [fault |-> FALSE, alert |-> TRUE, page |-> NoPage],
     [fault |-> FALSE, alert |-> FALSE,
      page |-> DeepPage(Some(<<"Dune">>), Some(<<Some(<<"A", WS, "desert">>)>>))]}

\* lines 371-374 (387-390): [pages, exc]; only AttributeError is caught
PagesOf(pager) ==
    IF IsNone(pager) THEN [pages |-> 1, exc |-> ""]
    ELSE IF IsNone(Val(pager)) THEN [pages |-> 0, exc |-> "KeyError"]
    ELSE IF IsNone(ParseInt(Val(Val(pager)))) THEN [pages |-> 0, exc |-> "ValueError"]
    ELSE [pages |-> Val(ParseInt(Val(Val(pager)))), exc |-> ""]

SearchReq(kind, page, status) == [Req(EP_search, kind, TRUE, status) EXCEPT !.page = page]

\* the status of a request logged as it is issued by a worker thread, whose
\* response is not part of the log
Pending == -1

\* search_books (kind "keywords", lines 364-378) and get_latest_books (kind
\* "news", lines 380-394): the initial request, the page count, the generator
SearchCallFrom(kind, deep, responses) ==
    /\ pc = "idle"
    /\ op' = IF kind = "keywords" THEN "search_books" ELSE "get_latest_books"
    /\ \E resp \in responses :
        /\ reqs' = <<SearchReq(kind, 0, StatusOf(resp))>>
        /\ IF resp.fault
           THEN pc' = "done" /\ ret' = Raise("HTTPError") /\ UNCHANGED gen
           ELSE IF PagesOf(resp.pager).exc # ""
           THEN pc' = "done" /\ ret' = Raise(PagesOf(resp.pager).exc) /\ UNCHANGED gen
           ELSE /\ pc' = "suspended"
                /\ ret' = ret
                /\ gen' = [params |-> kind,
                           pages |-> PagesOf(resp.pager).pages, deep |-> deep,
                           first |-> IF PagesOf(resp.pager).pages = 1
                                     THEN Some(resp.listing) ELSE None,
                           i |-> 0]
    /\ UNCHANGED <<cookies, book_id, book, loan_id, response, logs, parses>>
    /\ UNCHANGED <<cur, batch, nyield, futures, collected, comp, executor, parseVars>>

SearchCall(kind, deep) == SearchCallFrom(kind, deep, SearchResponses)

\* min(len(books), self.max_threads) without the cap
PoolSize_Uncapped(n) == n

\* line 358
PoolSize(n) == IF n < max_threads THEN n ELSE max_threads

\* executor.map (line 360): one future per book, submitted in listing order
Submit(books) ==
    [k \in DOMAIN books |-> [id |-> books[k].id, state |-> "pending", req |-> 0,
                             outcome |-> GetBookById(books[k].id,
                                            [fault |-> TRUE, alert |-> FALSE, page |-> NoPage])]]

\* the consumer asks for the next batch and the range is used up (line 345);
\* leaving the with block of the last batch shuts its executor down
ResumeExhausted ==
    /\ pc = "suspended"
    /\ gen.i >= gen.pages
    /\ pc' = "exhausted"
    /\ executor' = 0
    /\ UNCHANGED <<cookies, op, book_id, reqs, book, loan_id, response, ret, logs,
                   parses, parseVars>>
    /\ UNCHANGED <<gen, cur, batch, nyield, futures, collected, comp>>

\* lines 345-362 for the page i = gen.i + 1 and its response
ProducePage(listing) ==
    LET o == ParseSearchPage(listing)
    IN  /\ cur' = Some(listing)
        /\ logs' = o.logs
        /\ comp' = <<>>
        /\ collected' = 0
        /\ IF IsSome(o.raised)
           THEN /\ pc' = "raised" /\ ret' = Raise(Val(o.raised))
                /\ batch' = None /\ futures' = <<>> /\ executor' = 0
                /\ UNCHANGED nyield
           ELSE IF ~gen.deep
           THEN /\ pc' = "suspended" /\ ret' = ret
                /\ batch' = Some(o.books) /\ nyield' = nyield + 1
                /\ futures' = <<>> /\ executor' = 0
           ELSE IF PoolSize(Len(o.books)) <= 0
           THEN /\ pc' = "raised" /\ ret' = Raise("ValueError")  \* max_workers = 0
                /\ batch' = None /\ futures' = <<>> /\ executor' = 0
                /\ UNCHANGED nyield
           ELSE /\ pc' = "pool" /\ ret' = ret
                /\ batch' = None
                /\ futures' = Submit(o.books)
                /\ executor' = PoolSize(Len(o.books))
                /\ UNCHANGED nyield

\* the page before the one the loop is at
PageParam_Previous(i) == i - 1

\* params={**req_params, **{"page": i}} (line 352)
PageParam(i) == i

\* the consumer asks for the next batch: the page is requested (line 349),
\* or taken from first_response when there is one page (line 347)
ResumePageFrom(responses) ==
    /\ pc = "suspended"
    /\ gen.i < gen.pages
    /\ gen' = [gen EXCEPT !.i = @ + 1]
    /\ IF gen.pages = 1
       THEN /\ reqs' = <<>>
            /\ ProducePage(Val(gen.first))
       ELSE \E resp \in responses :
            /\ reqs' = <<SearchReq(gen.params, PageParam(gen.i + 1), StatusOf(resp))>>
            /\ IF resp.fault
               THEN /\ pc' = "raised" /\ ret' = Raise("HTTPError")
                    /\ batch' = None /\ futures' = <<>> /\ executor' = 0
                    /\ comp' = <<>> /\ collected' = 0
                    /\ UNCHANGED <<cur, nyield, logs>>
               ELSE ProducePage(resp.listing)
    /\ UNCHANGED <<cookies, op, book_id, book, loan_id, response, parses, parseVars>>

ResumePage == ResumePageFrom(PageResponses)

Running == {k \in DOMAIN futures : futures[k].state = "running"}

Waiting == {k \in DOMAIN futures : futures[k].state = "pending"}

\* a free worker thread takes the oldest queued fetch and issues its request
WorkerStart ==
    /\ pc \in {"pool", "aborting"}
    /\ Cardinality(Running) < executor
    /\ Waiting # {}
    /\ LET k == CHOOSE x \in Waiting : \A y \in Waiting : x <= y
       IN  /\ futures' = [futures EXCEPT ![k].state = "running", ![k].req = Len(reqs) + 1]
           /\ reqs' = Append(reqs, Req(EP_get_book, futures[k].id, TRUE, Pending))
    /\ UNCHANGED <<cookies, op, pc, book_id, book, loan_id, response, ret, logs, parses>>
    /\ UNCHANGED <<gen, cur, batch, nyield, collected, comp, executor, parseVars>>

\* a running fetch gets its response: get_book_by_id ends, the future is done
WorkerFinishFrom(k, responses) ==
    /\ pc \in {"pool", "aborting"}
    /\ k \in Running
    /\ \E resp \in responses :
        LET o == GetBookById(futures[k].id, resp)
        IN  /\ futures' = [futures EXCEPT ![k].state = "done", ![k].outcome = o]
            /\ comp' = Append(comp, [k |-> k, id |-> futures[k].id, ret |-> o.ret])
    /\ UNCHANGED <<cookies, op, pc, book_id, reqs, book, loan_id, response, ret, logs,
                   parses>>
    /\ UNCHANGED <<gen, cur, batch, nyield, collected, executor, parseVars>>

WorkerFinish(k) == WorkerFinishFrom(k, DeepResponses)

\* the results in the order the fetches completed
GatherBatch_CompletionOrder(fs, done) == [k \in DOMAIN fs |-> done[k].ret]

\* list(executor.map(...)): the results in the order the futures were submitted
GatherBatch(fs, done) == [k \in DOMAIN fs |-> fs[k].outcome.ret]

\* every future that is not done is cancelled, the running ones too
CancelPending_Running(fs) ==
    [k \in DOMAIN fs |->
        IF fs[k].state # "done" THEN [fs[k] EXCEPT !.state = "cancelled"] ELSE fs[k]]

\* the map iterator's cleanup, future.cancel() on every future left: only a
\* future that no worker has taken yet can be cancelled
CancelPending(fs) ==
    [k \in DOMAIN fs |->
        IF fs[k].state = "pending" THEN [fs[k] EXCEPT !.state = "cancelled"] ELSE fs[k]]

\* list() takes the next result from the map iterator, in submission order.
\* A result that is an exception is raised: the iterator cancels the futures
\* not yet started and the with block waits for the running ones.  After the
\* last result the batch is yielded.
Collect ==
    /\ pc = "pool"
    /\ collected < Len(futures)
    /\ futures[collected + 1].state = "done"
    /\ IF IsSome(futures[collected + 1].outcome.raised)
       THEN /\ pc' = "aborting"
            /\ ret' = Raise(Val(futures[collected + 1].outcome.raised))
            /\ futures' = CancelPending(futures)
            /\ UNCHANGED <<collected, batch, nyield>>
       ELSE /\ collected' = collected + 1
            /\ UNCHANGED <<futures, ret>>
            /\ IF collected + 1 = Len(futures)
               THEN /\ pc' = "suspended"
                    /\ batch' = Some(GatherBatch(futures, comp))
                    /\ nyield' = nyield + 1
               ELSE UNCHANGED <<pc, batch, nyield>>
    /\ UNCHANGED <<cookies, op, book_id, reqs, book, loan_id, response, logs, parses>>
    /\ UNCHANGED <<gen, cur, comp, executor, parseVars>>

\* executor.shutdown(wait=True) is over: the fault reaches the consumer
Propagate ==
    /\ pc = "aborting"
    /\ Running = {} /\ Waiting = {}
    /\ pc' = "raised"
    /\ executor' = 0
    /\ UNCHANGED <<cookies, op, book_id, reqs, book, loan_id, response, ret, logs, parses>>
    /\ UNCHANGED <<gen, cur, batch, nyield, futures, collected, comp, parseVars>>

\* the walk (or the call) is over, or the consumer drops the generator
\* between two batches; the client is ready for the next call
SearchFinish ==
    /\ pc \in {"exhausted", "raised", "done", "suspended"}
    /\ pc' = "idle"
    /\ op' = "none"
    /\ reqs' = <<>>
    /\ ret' = NoRet
    /\ logs' = <<>>
    /\ parses' = 0
    /\ gen' = NoGen
    /\ cur' = None
    /\ batch' = None
    /\ nyield' = 0
    /\ futures' = <<>>
    /\ collected' = 0
    /\ comp' = <<>>
    /\ executor' = 0
    /\ UNCHANGED <<cookies, book_id, book, loan_id, response, parseVars>>

SearchKinds == {"keywords", "news"}

NextSearch ==
    \/ \E kind \in SearchKinds, deep \in BOOLEAN : SearchCall(kind, deep)
    \/ ResumeExhausted
    \/ ResumePage
    \/ WorkerStart
    \/ \E k \in DOMAIN futures : WorkerFinish(k)
    \/ Collect
    \/ Propagate
    \/ SearchFinish

\* searching needs no authentication: a client constructed without credentials
InitSearch == cookies = None /\ Idle

SpecSearch == InitSearch /\ [][NextSearch]_vars

(***************************************************************************)
(* The deep search on result pages long enough to fill the pool: every     *)
(* page lists up to MaxPool copies of one item, every detail fetch is      *)
(* answered with a full page.                                              *)
(***************************************************************************)
MaxPool == 6

PoolItems == {it \in SearchItems : IsSome(it.authorref)}

PoolFirstPs == {Some([itemprop |-> Some("author"), string |-> Some(<<"Dick", WS>>)])}

PoolListings == ListingPagesOver(PoolItems, PoolFirstPs, MaxPool)

\* no pager (one page), or a pager of two pages
PoolPagers == {None, Some(Some(<<"2">>))}

PoolSearchResponses ==
    {[fault |-> FALSE, pager |-> pg, listing |-> l] : pg \in PoolPagers, l \in PoolListings}

PoolPageResponses ==
    {[fault |-> FALSE, pager |-> None, listing |-> l] : l \in PoolListings}

PoolDeepResponses == {r \in DeepResponses : ~r.fault /\ ~r.alert}

NextPool ==
    \/ SearchCallFrom("keywords", TRUE, PoolSearchResponses)
    \/ ResumeExhausted
    \/ ResumePageFrom(PoolPageResponses)
    \/ WorkerStart
    \/ \E k \in DOMAIN futures : WorkerFinishFrom(k, PoolDeepResponses)
    \/ Collect
    \/ SearchFinish

SpecPool == InitSearch /\ [][NextPool]_vars

(***************************************************************************)
(* Properties of the search walk                                           *)
(***************************************************************************)
SearchOps == {"search_books", "get_latest_books"}

\* C4: every batch a deep search yields has, at each position, what
\* get_book_by_id returned for the listing record at that position, whatever
\* the order in which the fetches completed.
C4_DeepOrder ==
    (op \in SearchOps /\ gen.deep /\ pc = "suspended" /\ IsSome(batch)) =>
        LET books == ParseSearchPage(Val(cur)).books
        IN  /\ Len(Val(batch)) = Len(books)
            /\ \A k \in DOMAIN books :
                   /\ \E j \in DOMAIN comp :
                          /\ comp[j].k = k
                          /\ comp[j].id = books[k].id
                          /\ Val(batch)[k] = comp[j].ret
                   /\ IsSome(Val(batch)[k]) => Val(Val(batch)[k]).id = books[k].id

\* a batch of two whose second fetch completed first, with different results
C4_Witness ==
    /\ op \in SearchOps /\ gen.deep /\ pc = "suspended" /\ IsSome(batch)
    /\ Len(Val(batch)) = 2 /\ Len(comp) = 2
    /\ comp[1].k = 2 /\ comp[2].k = 1
    /\ IsSome(Val(batch)[1]) /\ IsNone(Val(batch)[2])

\* C5 as stated: a walk yields exactly as many batches as the page count of
\* the initial response (1 without a pager, data-pages otherwise), batch i
\* being the parse of page i, and with one page no further search request is
\* issued.  (Walks ended by a transport fault left aside.)
C5_BatchPerPage ==
    /\ (op \in SearchOps /\ pc \in {"exhausted", "raised"}
            /\ ret.exc \notin TransportFaults) => nyield = gen.pages
    /\ (op \in SearchOps /\ gen.pages = 1 /\ gen.i >= 1) => Count(EP_search) = 0
    /\ (op \in SearchOps /\ ~gen.deep /\ IsSome(batch)) =>
           /\ Val(batch) = ParseSearchPage(Val(cur)).books
           /\ nyield = gen.i

Min(a, b) == IF a < b THEN a ELSE b

\* C14: during a deep search the detail fetches in flight are never more than
\* min(batch size, 5); each is the fetch of a record of the page being
\* enriched; and none is in flight when the walk is not inside a batch, that
\* is when a batch has been yielded, when the next page is requested and when
\* the walk is over.
C14_BoundedPool ==
    /\ Cardinality(Running) <= Min(Len(futures), max_threads)
    /\ Running # {} =>
           /\ pc \in {"pool", "aborting"}
           /\ IsSome(cur)
           /\ Len(futures) <= Len(Val(cur).items)
           /\ \A k \in Running :
                  \E i \in DOMAIN Val(cur).items :
                      /\ IsSome(ItemKey(Val(cur).items[i]))
                      /\ futures[k].id = Val(ItemKey(Val(cur).items[i])).id
    /\ pc \in {"idle", "suspended", "exhausted", "raised", "done"} =>
           \A k \in DOMAIN futures : futures[k].state \in {"done", "cancelled"}

\* five fetches of a page of more than five records are in flight and the
\* next one waits
C14_Witness ==
    /\ pc = "pool"
    /\ Len(futures) > max_threads
    /\ Cardinality(Running) = max_threads
    /\ Waiting # {}

Failed == {k \in DOMAIN futures :
               futures[k].state = "done" /\ IsSome(futures[k].outcome.raised)}

Cancelled == {k \in DOMAIN futures : futures[k].state = "cancelled"}

\* a deep batch is yielded only when all its fetches are done and none raised
NoPartialBatch ==
    (op \in SearchOps /\ gen.deep /\ pc = "suspended" /\ futures # <<>>) =>
        /\ \A k \in DOMAIN futures : futures[k].state = "done"
        /\ Failed = {}
        /\ IsSome(batch) /\ Len(Val(batch)) = Len(futures)

\* C15 as stated: a batch with a failing fetch is never yielded, its fault
\* reaches the consumer only when every dispatched fetch has completed or
\* raised, and no fetch is ever cancelled.
C15_Original ==
    /\ NoPartialBatch
    /\ (op \in SearchOps /\ pc = "raised" /\ futures # <<>>) =>
           /\ Failed # {}
           /\ \A k \in DOMAIN futures : futures[k].state = "done"
    /\ Cancelled = {}

\* C15, amended: a batch with a failing fetch is never yielded, and its fault
\* reaches the consumer only when every fetch that had started has completed
\* or raised; the fetches that had not started when the fault was picked up
\* are cancelled, which happens only then, and they issue no request.
C15_AbortBatch ==
    /\ NoPartialBatch
    /\ (op \in SearchOps /\ pc = "raised" /\ futures # <<>>) =>
           /\ Failed # {}
           /\ \A k \in DOMAIN futures : futures[k].state \in {"done", "cancelled"}
           /\ nyield = gen.i - 1
    /\ Cancelled # {} => pc \in {"aborting", "raised"} /\ Failed # {}
    /\ \A k \in Cancelled :
           /\ futures[k].req = 0
           /\ \A i \in DOMAIN comp : comp[i].k # k

\* a fault reached the consumer: the first fetch failed, another one was
\* cancelled before it started
C15_Witness ==
    /\ op \in SearchOps /\ pc = "raised"
    /\ 1 \in Failed
    /\ Cancelled # {}

\* C16 as stated: for every listing page the parser accepts, with any number
\* of records from zero up, the deep search sizes the pool min(records, 5),
\* dispatches one fetch per record and yields a batch of that length; it ends
\* with a fault only when a request failed, never because the page is empty.
C16_BatchPerRecord ==
    (op \in SearchOps /\ gen.deep /\ gen.i >= 1 /\ IsSome(cur)
         /\ IsNone(ParseSearchPage(Val(cur)).raised)) =>
        LET n == Len(ParseSearchPage(Val(cur)).books)
        IN  /\ pc = "pool" => executor = Min(n, max_threads) /\ Len(futures) = n
            /\ pc = "suspended" => IsSome(batch) /\ Len(Val(batch)) = n
            /\ pc = "raised" => ret.exc \in TransportFaults

\* the search requests among a log of requests
SearchReqs(log) == {i \in DOMAIN log : log[i].ep = EP_search}

\* C17: the call itself issues exactly the initial search request and starts
\* a walk at its beginning, whatever walks came before; a page is requested
\* only in the step in which the consumer resumes the suspended walk, and it
\* is the page after the batches yielded so far, so pages are asked for in
\* increasing order and none twice; no other step issues a search request or
\* moves the position.
C17_LazyForward ==
    [][/\ pc = "idle" =>
              /\ reqs' = <<>> \/ (Len(reqs') = 1 /\ reqs'[1].ep = EP_search /\ reqs'[1].page = 0)
              /\ pc' = "suspended" => gen'.i = 0 /\ nyield' = 0 /\ batch' = None
       /\ (pc = "suspended" /\ pc' # "idle") =>
              /\ gen.i = nyield
              /\ IF gen.i < gen.pages
                 THEN /\ gen'.i = gen.i + 1
                      /\ \A i \in SearchReqs(reqs') :
                             /\ i = 1 /\ Len(reqs') = 1
                             /\ reqs'[i].page = nyield + 1
                 ELSE gen' = gen /\ reqs' = reqs /\ pc' = "exhausted"
       /\ pc \notin {"idle", "suspended"} =>
              /\ pc' # "idle" => gen' = gen
              /\ \A i \in SearchReqs(reqs') : i \in SearchReqs(reqs) /\ reqs'[i] = reqs[i]
      ]_vars

\* the second page of a walk was requested, after the first batch was yielded
C17_Witness ==
    /\ op \in SearchOps
    /\ nyield >= 1
    /\ reqs # <<>> /\ reqs[1].ep = EP_search /\ reqs[1].page = 2

(***************************************************************************)
(* Properties of download_book_by_id, reserve_book_by_id, get_book_by_id   *)
(***************************************************************************)
\* the exceptions _parse_book_page lets escape (lines 193-205)
ParserFaults == {"TypeError", "StopIteration", "ValueError"}

Fetched(o) == op = o /\ pc = "done" /\ IsSome(book)

\* C1 as stated: for an authenticated download whose fetched book is owned,
\* the requests are the resource list followed by the redownload endpoint and
\* never the download endpoint; if it is available, the download endpoint and
\* never the other two; for every other status the call returns None and
\* requests none of the three.  (Calls ended by a transport fault left aside.)
C1_Original ==
    (Fetched("download") /\ ret.exc \notin TransportFaults) =>
        CASE Val(book).status = Some("owned") ->
                 /\ Eps[2] = EP_resources
                 /\ Len(reqs) >= 3 /\ Eps[3] = EP_redownload
                 /\ Count(EP_download) = 0
          [] Val(book).status = Some("available") ->
                 /\ Eps[2] = EP_download
                 /\ Count(EP_resources) = 0 /\ Count(EP_redownload) = 0
          [] OTHER ->
                 /\ ret = Return(None)
                 /\ Count(EP_download) = 0 /\ Count(EP_redownload) = 0
                 /\ Count(EP_resources) = 0

\* C1, amended: an owned book's resource list is requested first and the
\* redownload endpoint next, exactly when the list was received and a loan ID
\* extracted from it (otherwise the call raises and requests nothing more); the
\* download endpoint is never requested.  An available book's download endpoint
\* is requested and the other two never.  Every other status returns None with
\* none of the three requested.
C1_DownloadDispatch ==
    /\ (op = "download" /\ Count(EP_download) > 0) =>
           /\ IsSome(book) /\ Val(book).status = Some("available")
           /\ Count(EP_resources) = 0 /\ Count(EP_redownload) = 0
    /\ (op = "download" /\ Count(EP_resources) + Count(EP_redownload) > 0) =>
           /\ IsSome(book) /\ Val(book).status = Some("owned")
           /\ Count(EP_download) = 0
           /\ Eps[2] = EP_resources /\ Count(EP_resources) = 1
    /\ Fetched("download") =>
        CASE Val(book).status = Some("owned") ->
                 /\ Len(reqs) >= 2 /\ Eps[2] = EP_resources
                 /\ IF reqs[2].status = 200 /\ loan_id # ""
                    THEN Len(reqs) >= 3 /\ Eps[3] = EP_redownload
                         /\ reqs[3].arg = loan_id /\ Count(EP_redownload) = 1
                    ELSE Len(reqs) = 2 /\ ret.kind = "raise"
          [] Val(book).status = Some("available") ->
                 Len(reqs) >= 2 /\ Eps[2] = EP_download /\ Count(EP_download) = 1
          [] OTHER ->
                 ret = Return(None) /\ Len(reqs) = 1

\* an owned book redownloaded: resource list, then the redownload endpoint
C1_Witness ==
    /\ Fetched("download") /\ Val(book).status = Some("owned")
    /\ Len(reqs) >= 3 /\ Eps[2] = EP_resources /\ Eps[3] = EP_redownload
    /\ ret.kind = "return" /\ IsSome(ret.val)

\* C2: with no .ASPXAUTH cookie (absent, or empty), the call of
\* download_book_by_id or reserve_book_by_id is over at once: it returns None,
\* issues no request at all and leaves the cookie jar as it was.
C2_FailFast ==
    [][(pc = "idle" /\ (IsNone(cookies) \/ cookies = Some(""))
            /\ op' \in {"download", "reserve"})
         => (pc' = "done" /\ ret' = Return(None) /\ reqs' = <<>> /\ reqs = <<>>
                /\ cookies' = cookies /\ book' = None)]_vars

C2_Witness ==
    /\ op = "reserve" /\ IsNone(cookies) /\ pc = "done"
    /\ ret = Return(None) /\ reqs = <<>>

\* C3 as stated: download_book_by_id and reserve_book_by_id raise nothing but
\* transport faults; every operation-level failure (no authentication, book
\* not found, no loan entry, no marker, unknown reservation outcome) is a
\* returned None.  (The faults escaping the detail parser are left aside.)
C3_OnlyTransportFaultsRaised ==
    (op \in {"download", "reserve"} /\ pc = "done" /\ ret.kind = "raise")
        => ret.exc \in TransportFaults \cup ParserFaults

\* C6: once the reserve response is in, the result depends on #lblInfo alone:
\* "con successo" gives True; otherwise "prenotazione attiva" gives True with
\* a warning; any other message gives False with an error; no #lblInfo gives
\* None with the unknown-outcome error.
C6_ReserveOutcome ==
    (op = "reserve" /\ pc = "done" /\ Count(EP_reserve) > 0 /\ ~response.fault) =>
        LET m == response.body
            msg == Lower(Strip(Val(m)))
            last == logs[Len(logs)]
        IN  /\ ret.kind = "return"
            /\ IF IsNone(m)
               THEN ret.val = None /\ last.level = "error"
                    /\ last.msg = "Failed to reserve book (unknown outcome)"
               ELSE IF Contains(msg, <<"con", WS, "successo">>)
               THEN ret.val = Some(TRUE)
                    /\ last.msg \notin {"You already have an active reservation",
                                        "Failed to reserve book",
                                        "Failed to reserve book (unknown outcome)"}
               ELSE IF Contains(msg, <<"prenotazione", WS, "attiva">>)
               THEN ret.val = Some(TRUE) /\ last.level = "warning"
                    /\ last.msg = "You already have an active reservation"
               ELSE ret.val = Some(FALSE) /\ last.level = "error"
                    /\ last.msg = "Failed to reserve book"

\* an already-reserved answer: True, with the warning
C6_Witness ==
    /\ op = "reserve" /\ pc = "done" /\ Count(EP_reserve) = 1
    /\ response.body = Some(<<"hai", WS, "una", WS, "Prenotazione", WS, "Attiva">>)
    /\ ret = Return(Some(TRUE))
    /\ logs[Len(logs)].level = "warning"

\* C7: whatever the status of the fetched book, an authenticated
\* reserve_book_by_id issues exactly one detail request and then exactly one
\* reserve request.
C7_AlwaysReserves ==
    /\ (op = "reserve" /\ IsSome(book) /\ pc = "done") =>
           Eps = <<EP_get_book, EP_reserve>>
    /\ (op = "reserve" /\ IsSome(book) /\ pc # "done") =>
           pc = "r_reserve" /\ Eps = <<EP_get_book>>

\* a book that is not taken (here: available), and the reserve request made
C7_Witness ==
    /\ op = "reserve" /\ pc = "done" /\ IsSome(book)
    /\ Val(book).status = Some("available")
    /\ Eps = <<EP_get_book, EP_reserve>>
    /\ "You can only reserve taken books" \in {logs[i].msg : i \in DOMAIN logs}

\* C8 as stated: get_book_by_id issues one detail request and then returns
\* None without parsing if redirected to the notice page, None if the page has
\* no title, and otherwise a record with the requested id and the parser's
\* values; it never returns a record without a title.
C8_GetBookCases ==
    (op = "get_book" /\ pc = "done" /\ ~response.fault) =>
        /\ Eps = <<EP_get_book>>
        /\ IF response.location = "alert.aspx"
           THEN ret = Return(None) /\ parses = 0
           ELSE IF IsNone(response.body[1].title)
           THEN ret = Return(None)
           ELSE /\ ret.kind = "return" /\ IsSome(ret.val)
                /\ Val(ret.val).id = book_id
                /\ IsSome(Val(ret.val).title)

\* C9 as stated: a redirect answer to the download or redownload request is
\* followed by exactly one request, the last one.
C9_Original ==
    (op = "download" /\ pc = "done") =>
        \A i \in DOMAIN reqs :
            (reqs[i].ep \in {EP_download, EP_redownload}
                /\ reqs[i].status \in {301, 302, 303, 307, 308})
            => Len(reqs) = i + 1

\* C9, amended: the download or redownload request is issued with redirects
\* disabled; an answer with status 302 is followed by exactly one request, to
\* its Location, and no more; an answer with any other status (another
\* redirect status included) is not followed.  The call returns the final
\* response's content if its body starts with the marker and None otherwise.
C9_FollowOnce ==
    (op = "download" /\ pc = "done") =>
        \A i \in DOMAIN reqs :
            reqs[i].ep \in {EP_download, EP_redownload} =>
                /\ ~reqs[i].allow_redirects
                /\ IF reqs[i].status = 302
                   THEN Len(reqs) = i + 1 /\ reqs[i + 1].ep = "https://acs"
                   ELSE Len(reqs) = i
                /\ reqs[Len(reqs)].status # 0 =>
                       /\ ret.kind = "return"
                       /\ IF StartsWithMarker(response.body)
                          THEN ret.val = Some(response.body)
                          ELSE ret.val = None

\* a 302 followed once, the marker found in the final body
C9_Witness ==
    /\ op = "download" /\ pc = "done" /\ Len(reqs) = 3
    /\ reqs[2].ep = EP_download /\ reqs[2].status = 302
    /\ reqs[3].ep = "https://acs"
    /\ ret = Return(Some(<<Marker, "ABC">>))

=============================================================================
